---------------------------- MODULE Spec2Model ----------------------------
(***************************************************************************)
(* The contract-test scripts of testsprite_tests/ as one state machine.    *)
(* A run executes one test script: it issues the script's HTTP requests    *)
(* one by one against a backend that answers each with any status and      *)
(* body (or not at all), and judges each response the way the script's     *)
(* assertions do.  Strings that the scripts lower-case or search are       *)
(* sequences of one-character strings.                                     *)
(***************************************************************************)
EXTENDS Integers, Sequences, FiniteSets, TLC

VARIABLES
    tc,        \* the test script being run
    lib,       \* TRUE iff the installed requests makes JSONDecodeError a RequestException
    step,      \* index of the current request/check of the script
    pc,        \* position inside the current check
    req,       \* the request issued last (NoReq before the first)
    resp,      \* the response to the current request (NoResp while none)
    parsed,    \* response.json() has returned for the current response
    evaluated, \* the body predicate of the current check has been evaluated
    sent,      \* sent[k]: how many times request k was issued
    log,       \* one record per check that has ended
    handled,   \* an except-branch of the script has run
    result,    \* "running", "pass" or "fail"
    failure,   \* how the failing script ended
    token,     \* TC006: the token get_auth_token returned
    times      \* TC009: response_times, the durations of the repeated calls

vars ==
    <<tc, lib, step, pc, req, resp, parsed, evaluated, sent, log, handled,
      result, failure, token, times>>

(***************************************************************************)
(* Strings.                                                                *)
(***************************************************************************)
\* TC002:29 field name
S_name ==
    <<"n","a","m","e">>
\* TC002:29 field name
S_email ==
    <<"e","m","a","i","l">>
\* TC002:29 field name
S_password ==
    <<"p","a","s","s","w","o","r","d">>
\* TC002:29 field name
S_organizationName ==
    <<"o","r","g","a","n","i","z","a","t","i","o","n","N","a","m","e">>
\* tail of a validation message of the backend
S_required ==
    <<" ","i","s"," ","r","e","q","u","i","r","e","d">>
\* a message naming no field
S_invalid_request ==
    <<"i","n","v","a","l","i","d"," ","r","e","q","u","e","s","t">>
\* TC002:13 unique_email (uuid hex shortened)
S_unique_email ==
    <<"u","s","e","r","_","0","a","1","b","@","e","x","a","m","p","l","e",".","c","o","m">>
\* an email that is not the registered one
S_other_email ==
    <<"o","t","h","e","r","@","e","x","a","m","p","l","e",".","c","o","m">>
\* TC003:14
S_originalUrl_minimal ==
    <<"h","t","t","p","s",":","/","/","w","w","w",".","e","x","a","m","p","l","e",".","c","o","m">>
\* a short link that does not embed the original URL
S_short_link ==
    <<"h","t","t","p",":","/","/","l","o","c","a","l","h","o","s","t",":","3","0","0","1","/","l","/","a","b","c">>
\* TC003:39
S_utm_source ==
    <<"u","t","m","_","s","o","u","r","c","e","=","n","e","w","s","l","e","t","t","e","r">>
\* TC003:39
S_utm_medium ==
    <<"u","t","m","_","m","e","d","i","u","m","=","e","m","a","i","l">>
\* TC003:39
S_utm_campaign ==
    <<"u","t","m","_","c","a","m","p","a","i","g","n","=","l","a","u","n","c","h">>
\* TC003:39
S_utm_term ==
    <<"u","t","m","_","t","e","r","m","=","t","e","s","t","t","e","r","m">>
\* TC003:39
S_utm_content ==
    <<"u","t","m","_","c","o","n","t","e","n","t","=","c","o","n","t","e","n","t","A">>
\* TC003:26 originalUrl of the full payload, with the query mark
S_page ==
    <<"h","t","t","p","s",":","/","/","w","w","w",".","e","x","a","m","p","l","e",".","c","o","m","/","p","a","g","e","?">>
\* query separator
S_amp ==
    <<"&">>
\* a token the backend may issue
S_tokA ==
    <<"j","w","t","A">>
\* another token the backend may issue
S_tokB ==
    <<"j","w","t","B">>

UpperCase ==
    <<"A","B","C","D","E","F","G","H","I","J","K","L","M",
      "N","O","P","Q","R","S","T","U","V","W","X","Y","Z">>

LowerCase ==
    <<"a","b","c","d","e","f","g","h","i","j","k","l","m",
      "n","o","p","q","r","s","t","u","v","w","x","y","z">>

\* str.lower() on one character
LowerChar(c) ==
    IF \E i \in DOMAIN UpperCase : UpperCase[i] = c
    THEN LowerCase[CHOOSE i \in DOMAIN UpperCase : UpperCase[i] = c]
    ELSE c

\* str.lower()
Lower(s) ==
    [i \in DOMAIN s |-> LowerChar(s[i])]

\* Python's  sub in s  on two strings
Contains(sub, s) ==
    \E i \in 0..(Len(s) - Len(sub)) : SubSeq(s, i + 1, i + Len(sub)) = sub

(***************************************************************************)
(* JSON values.  A response body is text that is not JSON ("invalid"), the *)
(* JSON null, a JSON array of strings or a JSON object; f maps the keys of *)
(* an object (the elements of an array) to values.                         *)
(***************************************************************************)
VNone == [t |-> "none", s |-> <<>>]
VStr(s) == [t |-> "str", s |-> s]
VTrue == [t |-> "true", s |-> <<>>]
VFalse == [t |-> "false", s |-> <<>>]
VList == [t |-> "list", s |-> <<>>]
\* an object value; code is its "code" member (<<>>: it has none)
VObj(code) == [t |-> "obj", s |-> code]

EmptyF == [k \in {} |-> VNone]
Invalid == [kind |-> "invalid", f |-> EmptyF]
Null == [kind |-> "null", f |-> EmptyF]
Arr(elems) == [kind |-> "array", f |-> [k \in elems |-> VNone]]
Obj(f) == [kind |-> "object", f |-> f]
Unread == [kind |-> "unread", f |-> EmptyF]

\* isinstance(data, dict)
IsDict(b) == b.kind = "object"

\* k in data, for data a dict or a list (TypeError on None is the caller's case)
In(k, b) == k \in DOMAIN b.f

\* data.get(k) on a dict
Get(b, k) == IF k \in DOMAIN b.f THEN b.f[k] ELSE VNone

\* Python truthiness of a value
Truthy(v) == v.t \in {"true", "list", "obj"} \/ (v.t = "str" /\ v.s # <<>>)

\* a or b
Or(a, b) == IF Truthy(a) THEN a ELSE b

\* str(data.get(k, "")) for a string or missing member
StrOf(v) == IF v.t = "str" THEN v.s ELSE <<>>

\* assert k1 in data or k2 in data ...: "ok", "assert" (AssertionError) or
\* "error" (TypeError: argument of type 'NoneType' is not iterable)
AnyKey(b, keys) ==
    IF b.kind = "null" THEN "error"
    ELSE IF \E k \in keys : In(k, b) THEN "ok"
    ELSE "assert"

(***************************************************************************)
(* The scripts: their requests.                                            *)
(***************************************************************************)
Tests ==
    {"TC001", "TC002", "TC003", "TC004", "TC005", "TC006", "TC007g", "TC007r",
     "TC008", "TC009", "TC010"}

\* TIMEOUT of every script that defines it
TIMEOUT == 30

\* the literal timeout of TC007_metrics_history_data_grouping.py
GROUPING_TIMEOUT == 10

\* range(5) of the billing script's repeated calls
REPEATS == 5

\* the average-latency ceiling of the billing script, in seconds
MAX_AVG == 2

\* the number of requests a script issues when every check passes
NSteps(t) ==
    CASE t = "TC001" -> 2
      [] t = "TC002" -> 7
      [] t = "TC003" -> 4
      [] t = "TC004" -> 3
      [] t = "TC005" -> 3
      [] t = "TC006" -> 5
      [] t = "TC007g" -> 1
      [] t = "TC007r" -> 4
      [] t = "TC008" -> 5
      [] t = "TC009" -> 1 + REPEATS
      [] t = "TC010" -> 5

\* every script passing the shared TIMEOUT
Timeout_shared(t, k) ==
    TIMEOUT

\* the timeout= argument of request k of script t
Timeout(t, k) ==
    IF t = "TC007g" THEN GROUPING_TIMEOUT ELSE TIMEOUT

\* for missing_field in ["name", "email", "password", "organizationName"]
missing_fields ==
    <<"name", "email", "password", "organizationName">>

\* the same list as the characters the script searches for
missing_field(k) ==
    <<S_name, S_email, S_password, S_organizationName>>[k - 1]

\* for groupby in valid_groupbys, then invalid_groupby
groupbys ==
    <<"day", "week", "month", "year">>

Path(t, k) ==
    CASE t = "TC001" -> "/api/v1/auth/login"
      [] t = "TC002" -> "/api/v1/auth/register"
      [] t = "TC003" -> "/api/v1/utm/create"
      [] t = "TC004" -> "/api/v1/google-ads/auth"
      [] t = "TC005" -> "/api/v1/google-ads/campaigns"
      [] t = "TC006" -> IF k = 1 THEN "/api/v1/auth/login" ELSE "/api/v1/metrics/dashboard"
      [] t = "TC007g" -> "/api/v1/metrics/history"
      [] t = "TC007r" -> "/api/v1/metrics/history"
      [] t = "TC008" -> "/api/v1/roas-roi/analysis"
      [] t = "TC009" -> "/api/v1/billing/subscription"
      [] t = "TC010" -> "/api/v1/whatsapp/send"

\* the keys of the json= payload or of params= of request k of script t
Fields(t, k) ==
    CASE t = "TC001" -> {"email", "password"}
      [] t = "TC002" ->
           IF k \in 2..5
           THEN {"name", "email", "password", "organizationName"} \ {missing_fields[k - 1]}
           ELSE {"name", "email", "password", "organizationName"}
      [] t = "TC003" ->
           IF k = 2
           THEN {"originalUrl", "utmSource", "utmMedium", "utmCampaign", "utmTerm", "utmContent"}
           ELSE IF k = 4 THEN {"utmSource"} ELSE {"originalUrl"}
      [] t = "TC004" -> IF k = 2 THEN {} ELSE {"redirect_uri"}
      [] t = "TC005" -> IF k = 2 THEN {} ELSE {"customer_id"}
      [] t = "TC006" ->
           IF k = 1 THEN {"email", "password"}
           ELSE IF k = 3 THEN {} ELSE {"startDate", "endDate"}
      [] t = "TC007g" -> {"startDate", "endDate", "groupBy"}
      [] t = "TC007r" -> {"groupBy"}
      [] t = "TC008" ->
           IF k = 2 THEN {"endDate"}
           ELSE IF k = 3 THEN {"startDate"} ELSE {"startDate", "endDate"}
      [] t = "TC009" -> {}
      [] t = "TC010" ->
           IF k = 2 THEN {"message"}
           ELSE IF k = 3 THEN {"to"} ELSE {"to", "message"}

\* the groupBy value of a metrics-history request ("" where none is sent)
GroupBy(t, k) ==
    CASE t = "TC007g" -> "day"
      [] t = "TC007r" -> groupbys[k]
      [] OTHER -> ""

\* the Authorization header of request k (VNone: the script sends none)
Authorization(t, k, tok) ==
    CASE t = "TC006" /\ k > 1 -> tok
      [] t = "TC007g" -> VStr(<<"valid-test-token">>)
      [] t = "TC008" -> VStr(<<"testtoken">>)
      [] t = "TC010" -> VStr(<<"sample_valid_token">>)
      [] OTHER -> VNone

NoReq == [path |-> "", fields |-> {}, groupBy |-> "", auth |-> VNone, timeout |-> 0]

\* requests.get / requests.post of request k of script t
Request(t, k, tok) ==
    [path |-> Path(t, k), fields |-> Fields(t, k), groupBy |-> GroupBy(t, k),
     auth |-> Authorization(t, k, tok), timeout |-> Timeout(t, k)]

(***************************************************************************)
(* The scripts: how each judges a response.                                *)
(***************************************************************************)
\* the status codes the backend may answer with
Statuses == {200, 201, 204, 400, 401, 404, 422, 500}

\* response.raise_for_status() raises HTTPError
RaiseForStatus(st) == st >= 400 /\ st < 600

\* TRUE iff check k of script t judges the status with raise_for_status()
UsesRaiseForStatus(t, k) ==
    \/ t = "TC006" /\ k \in {1, 2}
    \/ t = "TC008" /\ k = 1

\* the statuses the status assertion of check k of script t lets through
AcceptedStatuses(t, k) ==
    CASE UsesRaiseForStatus(t, k) -> {st \in Statuses : ~RaiseForStatus(st)}
      [] t = "TC001" -> IF k = 1 THEN {200} ELSE {400, 401}
      [] t = "TC002" -> IF k = 1 THEN {200, 201} ELSE {400, 422}
      [] t = "TC003" -> IF k \in {1, 2} THEN {200, 201} ELSE {st \in Statuses : st >= 400}
      [] t = "TC004" -> IF k = 1 THEN {200, 201} ELSE {400, 422}
      [] t = "TC005" -> IF k = 1 THEN {200} ELSE IF k = 2 THEN {400, 422} ELSE {400, 404}
      [] t = "TC006" -> IF k = 3 THEN {200, 400, 422} ELSE {400, 422}
      [] t = "TC007g" -> {200, 401}
      [] t = "TC007r" -> IF k \in 1..3 THEN {200} ELSE {400, 422}
      [] t = "TC008" -> {400, 422}
      [] t = "TC009" -> {200}
      [] t = "TC010" -> IF k = 1 THEN {200} ELSE {400, 422}

\* a check whose status assertion was left out
StatusOk_any(t, k, st) ==
    TRUE

\* the status assertion of check k of script t
StatusOk(t, k, st) ==
    st \in AcceptedStatuses(t, k)

\* what a failed status judgement raises
StatusError(t, k) ==
    IF UsesRaiseForStatus(t, k) THEN "HTTPError" ELSE "StatusAssertion"

\* a script that never calls response.json()
ReadsBody_never(t, k, st) ==
    FALSE

\* TRUE iff check k of script t calls response.json() on a response of status st
ReadsBody(t, k, st) ==
    CASE t = "TC006" -> k \in {1, 2} \/ (k = 3 /\ st = 200)
      [] t \in {"TC008", "TC009", "TC010"} -> k = 1
      [] OTHER -> TRUE

\* the body assertions of each script: "ok", "assert" (an assertion fails) or
\* "error" (TypeError, AttributeError or KeyError is raised)
test_user_login_functionality_tokenOnly(k, b) ==
    IF k = 1 THEN AnyKey(b, {"token"})
    ELSE AnyKey(b, {"error", "message"})

test_user_login_functionality(k, b) ==
    IF k = 1 THEN AnyKey(b, {"token", "accessToken"})
    ELSE AnyKey(b, {"error", "message"})

test_user_registration_process(k, b) ==
    CASE k = 1 ->
           IF b.kind = "null" THEN "error"
           ELSE IF ~In("email", b) THEN "assert"
           ELSE IF ~IsDict(b) THEN "error"
           ELSE IF b.f["email"] = VStr(S_unique_email) THEN "ok" ELSE "assert"
      [] k \in 2..5 ->
           IF b.kind = "null" THEN "error"
           ELSE IF DOMAIN b.f = {} THEN "assert"
           ELSE IF ~IsDict(b) THEN "error"
           ELSE IF Contains(missing_field(k), Lower(StrOf(Get(b, "message")))) THEN "ok"
           ELSE "assert"
      [] OTHER ->
           IF ~IsDict(b) THEN "error"
           ELSE IF Contains(IF k = 6 THEN S_email ELSE S_password,
                            Lower(StrOf(Get(b, "message")))) THEN "ok"
           ELSE "assert"

\* data.get("utmLink") or data.get("shortUrl") or data.get("url")
created_url(b) ==
    Or(Or(Get(b, "utmLink"), Get(b, "shortUrl")), Get(b, "url"))

\* the for-loop list of expected parameters
utm_params ==
    {S_utm_source, S_utm_medium, S_utm_campaign, S_utm_term, S_utm_content}

error_keys == {"error", "message", "detail", "errors"}

test_utm_link_creation_and_validation(k, b) ==
    CASE k = 1 ->
           IF AnyKey(b, {"utmLink", "shortUrl", "url"}) # "ok"
           THEN AnyKey(b, {"utmLink", "shortUrl", "url"})
           ELSE IF ~IsDict(b) THEN "error"
           ELSE IF created_url(b).t # "str" THEN "error"
           ELSE IF Contains(S_originalUrl_minimal, created_url(b).s) THEN "ok"
           ELSE "assert"
      [] k = 2 ->
           IF ~IsDict(b) THEN "error"
           ELSE IF created_url(b).t = "none" THEN "assert"
           ELSE IF created_url(b).t # "str" THEN "error"
           ELSE IF \A param \in utm_params : Contains(param, Lower(created_url(b).s))
                THEN "ok"
           ELSE "assert"
      [] OTHER -> AnyKey(b, error_keys)

test_google_ads_oauth_flow_initiation(k, b) ==
    IF k = 1
    THEN IF ~IsDict(b) THEN "assert"
         ELSE IF In("auth_url", b) \/ In("url", b) \/ (\E key \in DOMAIN b.f : key # "")
              THEN "ok"
         ELSE "assert"
    ELSE AnyKey(b, {"error", "message"})

test_fetch_google_ads_campaigns(k, b) ==
    IF k = 1
    THEN IF IsDict(b) /\ In("campaigns", b) /\ b.f["campaigns"].t = "list" THEN "ok"
         ELSE "assert"
    ELSE AnyKey(b, {"error", "message"})

\* token = data.get('accessToken') or data.get('token')
get_auth_token(b) ==
    Or(Get(b, "accessToken"), Get(b, "token"))

test_dashboard_metrics_retrieval(k, b) ==
    CASE k = 1 ->
           IF ~IsDict(b) THEN "error"
           ELSE IF get_auth_token(b).t = "none" THEN "assert" ELSE "ok"
      [] k = 2 -> IF IsDict(b) /\ DOMAIN b.f # {} THEN "ok" ELSE "assert"
      [] OTHER -> IF IsDict(b) THEN "ok" ELSE "assert"

test_metrics_history_data_grouping(st, b) ==
    IF st = 200
    THEN IF IsDict(b) /\ In("success", b) /\ In("data", b) /\ b.f["data"].t = "list"
         THEN "ok" ELSE "assert"
    ELSE IF b.kind = "null" THEN "error"
         ELSE IF ~In("error", b) THEN "assert"
         ELSE IF ~IsDict(b) \/ b.f["error"].t # "obj" \/ b.f["error"].s = <<>> THEN "error"
         ELSE IF b.f["error"].s = <<"INVALID_TOKEN">> THEN "ok"
         ELSE "assert"

test_metrics_history_data_retrieval(k, b) ==
    IF k \in 1..3
    THEN IF b.kind \in {"object", "array"} THEN "ok" ELSE "assert"
    ELSE AnyKey(b, {"error", "message"})

test_roas_roi_analysis_report_generation(b) ==
    IF IsDict(b) /\ (In("report", b) \/ In("analysis", b)) THEN "ok" ELSE "assert"

test_billing_subscription_management(b) ==
    IF b.kind = "null" THEN "error"
    ELSE IF In("plan", b) /\ In("status", b) THEN "ok"
    ELSE "assert"

test_whatsapp_message_sending(b) ==
    IF b.kind = "null" THEN "error"
    ELSE IF In("success", b) /\ ~IsDict(b) THEN "error"
    ELSE IF In("success", b) /\ b.f["success"] = VTrue THEN "ok"
    ELSE IF In("messageId", b) THEN "ok"
    ELSE "assert"

\* the body assertions of check k of script t on a parsed body b
Predicate(t, k, st, b) ==
    CASE t = "TC001" -> test_user_login_functionality(k, b)
      [] t = "TC002" -> test_user_registration_process(k, b)
      [] t = "TC003" -> test_utm_link_creation_and_validation(k, b)
      [] t = "TC004" -> test_google_ads_oauth_flow_initiation(k, b)
      [] t = "TC005" -> test_fetch_google_ads_campaigns(k, b)
      [] t = "TC006" -> test_dashboard_metrics_retrieval(k, b)
      [] t = "TC007g" -> test_metrics_history_data_grouping(st, b)
      [] t = "TC007r" -> test_metrics_history_data_retrieval(k, b)
      [] t = "TC008" -> test_roas_roi_analysis_report_generation(b)
      [] t = "TC009" -> test_billing_subscription_management(b)
      [] t = "TC010" -> test_whatsapp_message_sending(b)

\* the try/except around check k of script t: "none", "call" (only the
\* requests call is inside the try), "RequestException" or "Exception"
Catch(t, k) ==
    CASE t \in {"TC001", "TC006", "TC007g", "TC007r"} -> "RequestException"
      [] t = "TC008" -> IF k = 1 THEN "RequestException" ELSE "none"
      [] t \in {"TC004", "TC009"} -> "call"
      [] t = "TC005" -> "Exception"
      [] OTHER -> "none"

\* the exceptions a backend that does not answer makes requests raise
TransportErrors == {"ConnectionError", "Timeout"}

\* isinstance(e, requests.RequestException); l: the installed requests derives
\* JSONDecodeError from RequestException (2.27 and later)
IsRequestException(e, l) ==
    \/ e \in TransportErrors
    \/ e = "HTTPError"
    \/ e = "JSONDecodeError" /\ l

\* TRUE iff the except clause around check k of script t catches e
Caught(t, k, e, l) ==
    CASE Catch(t, k) = "none" -> FALSE
      [] Catch(t, k) = "call" -> e \in TransportErrors
      [] Catch(t, k) = "RequestException" -> IsRequestException(e, l)
      [] Catch(t, k) = "Exception" -> TRUE

(***************************************************************************)
(* The backend: what it may answer.                                        *)
(***************************************************************************)
\* seconds the backend may take to answer
Delays == {1, 3, 15, 40}

NoResp == [status |-> 0, body |-> Unread]

CommonBodies == {Invalid, Null, Obj(EmptyF)}

ErrorBodies ==
    {Obj("error" :> VStr(S_invalid_request)), Obj("message" :> VStr(S_invalid_request)),
     Obj("detail" :> VStr(S_invalid_request)), Arr({"errors"})}

\* validation messages of the registration endpoint
Messages ==
    {fld \o S_required : fld \in {S_name, S_email, S_password, S_organizationName}}
      \cup {Lower(S_organizationName \o S_required), S_invalid_request}

\* the link a backend builds from the full payload, values as submitted
FullLink ==
    S_page \o S_utm_source \o S_amp \o S_utm_medium \o S_amp \o S_utm_campaign
      \o S_amp \o S_utm_term \o S_amp \o S_utm_content

\* the same link without utm_term
PartialLink ==
    S_page \o S_utm_source \o S_amp \o S_utm_medium \o S_amp \o S_utm_campaign
      \o S_amp \o S_utm_content

\* the bodies the backend may answer request k of script t with
Bodies(t, k) ==
    CommonBodies \cup
    CASE t = "TC001" ->
           {Obj("token" :> VStr(S_tokA)), Obj("accessToken" :> VStr(S_tokA)),
            Arr({"token"})} \cup ErrorBodies
      [] t = "TC002" ->
           IF k = 1
           THEN {Obj("email" :> VStr(S_unique_email)), Obj("email" :> VStr(S_other_email)),
                 Arr({"email"})}
           ELSE {Obj("message" :> VStr(m)) : m \in Messages}
                  \cup {Obj("error" :> VStr(S_name \o S_required)), Arr({"message"})}
      [] t = "TC003" ->
           IF k = 1
           THEN {Obj("utmLink" :> VStr(S_originalUrl_minimal)),
                 Obj("shortUrl" :> VStr(S_short_link)),
                 Obj("url" :> VStr(<<>>)), Arr({"url"})}
           ELSE IF k = 2
           THEN {Obj("utmLink" :> VStr(FullLink)), Obj("utmLink" :> VStr(Lower(FullLink))),
                 Obj("url" :> VStr(PartialLink)), Obj("shortUrl" :> VTrue)}
           ELSE ErrorBodies
      [] t = "TC004" ->
           IF k = 1
           THEN {Obj("auth_url" :> VStr(S_short_link)), Obj("url" :> VStr(S_short_link)),
                 Obj("status" :> VTrue), Arr({"auth_url"})}
           ELSE ErrorBodies
      [] t = "TC005" ->
           IF k = 1
           THEN {Obj("campaigns" :> VList), Obj("campaigns" :> VTrue), Obj("data" :> VList)}
           ELSE ErrorBodies
      [] t = "TC006" ->
           IF k = 1
           THEN {Obj("accessToken" :> VStr(S_tokA)), Obj("token" :> VStr(S_tokB)),
                 Obj("accessToken" :> VStr(S_tokA) @@ "token" :> VStr(S_tokB)),
                 Obj("accessToken" :> VStr(<<>>) @@ "token" :> VStr(S_tokB)),
                 Obj("accessToken" :> VStr(<<>>)), Obj("token" :> VStr(<<>>)),
                 Arr({"token"})}
           ELSE {Obj("clicks" :> VTrue), Arr({"clicks"})} \cup ErrorBodies
      [] t = "TC007g" ->
           {Obj("success" :> VTrue @@ "data" :> VList),
            Obj("success" :> VTrue @@ "data" :> VTrue),
            Obj("error" :> VObj(<<"INVALID_TOKEN">>)), Obj("error" :> VObj(<<"EXPIRED">>)),
            Obj("error" :> VObj(<<>>)), Obj("error" :> VStr(S_invalid_request)),
            Arr({"error"})}
      [] t = "TC007r" -> {Obj("data" :> VList), Arr({})} \cup ErrorBodies
      [] t = "TC008" ->
           {Obj("report" :> VObj(<<>>)), Obj("analysis" :> VObj(<<>>)), Arr({"report"})}
             \cup ErrorBodies
      [] t = "TC009" ->
           {Obj("plan" :> VStr(<<"pro">>) @@ "status" :> VStr(<<"active">>)),
            Obj("plan" :> VStr(<<"pro">>)), Arr({"plan", "status"})}
      [] t = "TC010" ->
           {Obj("success" :> VTrue), Obj("success" :> VFalse),
            Obj("messageId" :> VStr(<<"m1">>)),
            Obj("success" :> VFalse @@ "messageId" :> VStr(<<"m1">>)),
            Arr({"success"})} \cup ErrorBodies

(***************************************************************************)
(* The run of one script.                                                  *)
(***************************************************************************)
Init ==
    /\ tc \in Tests
    /\ lib \in BOOLEAN
    /\ step = 1
    /\ pc = "issue"
    /\ req = NoReq
    /\ resp = NoResp
    /\ parsed = FALSE
    /\ evaluated = FALSE
    /\ sent = [k \in 1..NSteps(tc) |-> 0]
    /\ log = <<>>
    /\ handled = FALSE
    /\ result = "running"
    /\ failure = "none"
    /\ token = VNone
    /\ times = <<>>

\* a handler that swallows a failed body assertion and lets the script go on
AfterRaise_swallow(t, k, e) ==
    IF e = "PredicateAssertion" THEN "passed" ELSE "done"

\* a handler that sends the request again after a network failure
AfterRaise_retry(t, k, e) ==
    IF e \in TransportErrors THEN "issue" ELSE "done"

\* where the script goes on after exception e left check k: every except
\* branch ends in assert False, pytest.fail or raise, and an exception that
\* no branch catches leaves the script
AfterRaise(t, k, e) == "done"

\* how the script that ended on exception e reports it: the message of the
\* except branch that caught it, or the exception itself
Report(t, k, e, l) ==
    IF Caught(t, k, e, l) THEN "Handler" ELSE e

\* the record of the check that just ended
Entry(outcome) ==
    [status |-> resp.status, parsed |-> parsed, outcome |-> outcome]

\* exception e, raised for the reason cause, leaves the current check
Raise(e, cause) ==
    /\ pc' = AfterRaise(tc, step, e)
    /\ result' = IF AfterRaise(tc, step, e) = "done" THEN "fail" ELSE result
    /\ handled' = Caught(tc, step, e, lib)
    /\ failure' = Report(tc, step, e, lib)
    /\ log' = Append(log, Entry(cause))

\* every assertion of the current check held
Pass ==
    /\ pc' = "passed"
    /\ log' = Append(log, Entry("pass"))
    /\ UNCHANGED <<result, handled, failure>>

\* requests.get(...) / requests.post(...) is called
Issue ==
    /\ pc = "issue"
    /\ req' = Request(tc, step, token)
    /\ sent' = [sent EXCEPT ![step] = @ + 1]
    /\ pc' = "await"
    /\ resp' = NoResp
    /\ parsed' = FALSE
    /\ evaluated' = FALSE
    /\ UNCHANGED <<tc, lib, step, log, handled, result, failure, token, times>>

\* the backend answers within the timeout
Receive(st, b, d) ==
    /\ pc = "await"
    /\ d <= req.timeout
    /\ resp' = [status |-> st, body |-> b]
    /\ times' = IF tc = "TC009" /\ step > 1 THEN Append(times, d) ELSE times
    /\ pc' = "status"
    /\ UNCHANGED <<tc, lib, step, req, parsed, evaluated, sent, log, handled, result,
                   failure, token>>

\* the connection fails, or the backend takes longer than the timeout
NoAnswer(e) ==
    /\ pc = "await"
    /\ e = "Timeout" => \E d \in Delays : d > req.timeout
    /\ Raise(e, "TransportFailure")
    /\ UNCHANGED <<tc, lib, step, req, resp, parsed, evaluated, sent, token, times>>

\* the status assertion, or raise_for_status()
JudgeStatus ==
    /\ pc = "status"
    /\ IF ~StatusOk(tc, step, resp.status)
       THEN Raise(StatusError(tc, step), "StatusMismatch")
       ELSE IF ReadsBody(tc, step, resp.status)
       THEN pc' = "parse" /\ UNCHANGED <<result, handled, failure, log>>
       ELSE Pass
    /\ UNCHANGED <<tc, lib, step, req, resp, parsed, evaluated, sent, token, times>>

\* response.json()
ParseBody ==
    /\ pc = "parse"
    /\ IF resp.body.kind = "invalid"
       THEN Raise("JSONDecodeError", "BodyParseFailure") /\ parsed' = FALSE
       ELSE pc' = "predicate" /\ parsed' = TRUE
              /\ UNCHANGED <<result, handled, failure, log>>
    /\ UNCHANGED <<tc, lib, step, req, resp, evaluated, sent, token, times>>

\* the assertions on the parsed body
EvalPredicate ==
    /\ pc = "predicate"
    /\ evaluated' = TRUE
    /\ LET r == Predicate(tc, step, resp.status, resp.body)
       IN  CASE r = "ok" -> Pass
             [] r = "assert" -> Raise("PredicateAssertion", "ContractViolation")
             [] r = "error" -> Raise("TypeError", "ContractViolation")
    /\ token' = IF tc = "TC006" /\ step = 1 THEN get_auth_token(resp.body) ELSE token
    /\ UNCHANGED <<tc, lib, step, req, resp, parsed, sent, times>>

\* the script goes on to its next statement after a check that passed
Advance ==
    /\ pc = "passed"
    /\ IF step < NSteps(tc)
       THEN step' = step + 1 /\ pc' = "issue" /\ UNCHANGED result
       ELSE IF tc = "TC009"
       THEN pc' = "average" /\ UNCHANGED <<step, result>>
       ELSE pc' = "done" /\ result' = "pass" /\ UNCHANGED step
    /\ resp' = NoResp
    /\ parsed' = FALSE
    /\ evaluated' = FALSE
    /\ UNCHANGED <<tc, lib, req, sent, log, handled, failure, token, times>>

RECURSIVE Sum(_)
\* sum(response_times)
Sum(s) == IF s = <<>> THEN 0 ELSE Head(s) + Sum(Tail(s))

\* a script whose latency assertion was left out
Average_unchecked ==
    /\ pc = "average"
    /\ pc' = "done"
    /\ result' = "pass"
    /\ UNCHANGED <<tc, lib, step, req, resp, parsed, evaluated, sent, log, handled,
                   failure, token, times>>

\* assert avg_response_time < 2
Average ==
    /\ pc = "average"
    /\ pc' = "done"
    /\ IF Sum(times) < MAX_AVG * Len(times)
       THEN result' = "pass" /\ UNCHANGED failure
       ELSE result' = "fail" /\ failure' = "LatencyAssertion"
    /\ UNCHANGED <<tc, lib, step, req, resp, parsed, evaluated, sent, log, handled,
                   token, times>>

Next ==
    \/ Issue
    \/ \E st \in Statuses, b \in Bodies(tc, step), d \in Delays : Receive(st, b, d)
    \/ \E e \in TransportErrors : NoAnswer(e)
    \/ JudgeStatus
    \/ ParseBody
    \/ EvalPredicate
    \/ Advance
    \/ Average

Spec == Init /\ [][Next]_vars

(***************************************************************************)
(* Properties.                                                             *)
(***************************************************************************)
\* the check of request k has ended (its record is in the log)
Ended(k) == k <= Len(log)

\* the current check has ended and its response is still at hand
EndedNow == Len(log) = step /\ resp # NoResp

FailedChecks == {"StatusMismatch", "BodyParseFailure", "ContractViolation"}

\* C1: request k+1 is issued only after request k was answered and every
\* check on the answer passed; after a failed check (status mismatch, body
\* parse failure, contract violation) the script has failed and no later
\* request is ever issued.
C1_SequentialFailFast ==
    /\ \A k \in DOMAIN sent : sent[k] > 0 =>
          \A j \in 1..(k - 1) :
             /\ Ended(j)
             /\ log[j].outcome = "pass"
             /\ log[j].status \in AcceptedStatuses(tc, j)
    /\ \A j \in DOMAIN log : log[j].outcome \in FailedChecks =>
          /\ result = "fail"
          /\ pc = "done"
          /\ j = Len(log)
          /\ \A k \in DOMAIN sent : k > j => sent[k] = 0

\* a later request was issued, and its check failed on the body
C1_Witness ==
    /\ tc = "TC005"
    /\ sent[3] = 1
    /\ Len(log) = 3
    /\ log[3].outcome = "ContractViolation"
    /\ result = "fail"

\* C2: a request that ends in a network failure was issued exactly once, the
\* script has failed at once, and no further request is issued.
C2_NoRetry ==
    \A j \in DOMAIN log : log[j].outcome = "TransportFailure" =>
       /\ result = "fail"
       /\ pc = "done"
       /\ j = Len(log)
       /\ sent[j] = 1
       /\ \A k \in DOMAIN sent : k > j => sent[k] = 0

\* the third subscription call of the billing script times out
C2_Witness ==
    /\ tc = "TC009"
    /\ Len(log) = 3
    /\ log[3].outcome = "TransportFailure"
    /\ failure = "Handler"
    /\ sent[3] = 1

\* C3: the status is judged first: the body is parsed only for a status of
\* the accepted set, the body predicate is evaluated only on a body that was
\* parsed as JSON, and a response whose status is outside the accepted set
\* fails the check with the body neither parsed nor looked at.
C3_StatusFirst ==
    /\ (parsed \/ pc \in {"parse", "predicate"}) =>
          resp.status \in AcceptedStatuses(tc, step)
    /\ evaluated => parsed /\ resp.body.kind # "invalid"
    /\ (EndedNow /\ resp.status \notin AcceptedStatuses(tc, step)) =>
          /\ log[step].outcome = "StatusMismatch"
          /\ result = "fail"
          /\ ~parsed
          /\ ~evaluated

\* a login answer with the wrong status and a body that carries a token
C3_Witness ==
    /\ tc = "TC001"
    /\ step = 1
    /\ resp.status = 201
    /\ resp.body = Obj("token" :> VStr(S_tokA))
    /\ result = "fail"
    /\ ~parsed

\* C4: the branch that reports a network failure runs only when no response
\* was received; a status mismatch and a body parse failure end the script
\* with an outcome other than the one a network failure produces.
C4_NetworkBranchOnlyWithoutResponse ==
    /\ handled => resp = NoResp
    /\ (EndedNow /\ log[step].outcome \in {"StatusMismatch", "BodyParseFailure"}) =>
          failure # Report(tc, step, "ConnectionError", lib)

\* the checks that assert on the status alone
StatusOnly(t, k, st) ==
    \/ t = "TC006" /\ (k \in {4, 5} \/ (k = 3 /\ st # 200))
    \/ t \in {"TC008", "TC010"} /\ k \in 2..5
    \/ t = "TC009" /\ k \in 2..6

\* C5 as stated: whenever the status is accepted the body is parsed as JSON,
\* and an accepted status with a body that is not JSON fails the check.
C5_AlwaysParsed ==
    (EndedNow /\ resp.status \in AcceptedStatuses(tc, step)) =>
       IF resp.body.kind = "invalid" THEN result = "fail" ELSE parsed

\* C5 amended: in every check but the status-only ones an accepted status
\* has the body parsed as JSON, and a body that is not JSON fails the check
\* as a body parse failure; a status-only check passes on an accepted status
\* without reading the body.
C5_ParsedUnlessStatusOnly ==
    (EndedNow /\ resp.status \in AcceptedStatuses(tc, step)) =>
       IF StatusOnly(tc, step, resp.status)
       THEN ~parsed /\ log[step].outcome = "pass"
       ELSE IF resp.body.kind = "invalid"
       THEN result = "fail" /\ log[step].outcome = "BodyParseFailure"
       ELSE parsed

\* an accepted status with a body that is not JSON fails a body check
C5_Witness ==
    /\ tc = "TC007r"
    /\ step = 2
    /\ resp.status = 200
    /\ resp.body = Invalid
    /\ EndedNow
    /\ result = "fail"

\* C6: in the registration script, the request that omits field f answered
\* with 400 or 422 and a JSON object whose message names f passes the
\* missing-field check for f.
C6_MissingFieldCheckPasses ==
    (/\ tc = "TC002"
     /\ step \in 2..5
     /\ EndedNow
     /\ resp.status \in {400, 422}
     /\ IsDict(resp.body)
     /\ Contains(missing_field(step), StrOf(Get(resp.body, "message"))))
       => log[step].outcome = "pass"

\* C7: in the UTM script, a 200/201 answer to the full payload whose link
\* contains every utm_<field>=<value> of the submitted values, compared
\* case-insensitively, passes the full-parameter check.
C7_FullParameterCheckPasses ==
    (/\ tc = "TC003"
     /\ step = 2
     /\ EndedNow
     /\ resp.status \in {200, 201}
     /\ IsDict(resp.body)
     /\ created_url(resp.body).t = "str"
     /\ \A param \in utm_params :
           Contains(Lower(param), Lower(created_url(resp.body).s)))
       => log[step].outcome = "pass"

\* the required inputs of each endpoint, from the interface table
RequiredInputs(path) ==
    CASE path = "/api/v1/auth/login" -> {"email", "password"}
      [] path = "/api/v1/auth/register" -> {"name", "email", "password", "organizationName"}
      [] path = "/api/v1/utm/create" -> {"originalUrl"}
      [] path = "/api/v1/google-ads/auth" -> {"redirect_uri"}
      [] path = "/api/v1/google-ads/campaigns" -> {"customer_id"}
      [] path = "/api/v1/metrics/dashboard" -> {"startDate", "endDate"}
      [] path = "/api/v1/metrics/history" -> {"startDate", "endDate", "groupBy"}
      [] path = "/api/v1/roas-roi/analysis" -> {"startDate", "endDate"}
      [] path = "/api/v1/whatsapp/send" -> {"to", "message"}
      [] OTHER -> {}

\* C8: a request that omits a required input of its endpoint passes its
\* check only if the response status is 400 or 422.
C8_OmissionNeeds400Or422 ==
    (/\ EndedNow
     /\ ~(RequiredInputs(req.path) \subseteq req.fields)
     /\ log[step].outcome = "pass")
       => resp.status \in {400, 422}

\* C9 as stated: every request is made with a 30-second timeout.
C9_AlwaysThirty ==
    req # NoReq => req.timeout = 30

\* C9 amended: every request is made with a 30-second timeout, except the
\* one request of the metrics-history grouping script, which is made with a
\* 10-second timeout.
C9_ThirtyExceptGrouping ==
    req # NoReq => req.timeout = IF tc = "TC007g" THEN 10 ELSE 30

\* the grouping script has issued its request
C9_Witness ==
    /\ tc = "TC007g"
    /\ pc = "await"
    /\ req.timeout = 10

\* a login answer of status 200 whose JSON body contains token or accessToken
LoginAccepted(r) ==
    /\ r.status = 200
    /\ r.body.kind \in {"object", "array"}
    /\ (\E key \in {"token", "accessToken"} : key \in DOMAIN r.body.f)

\* a login answer of status 400 or 401 whose JSON body contains error or message
LoginRejected(r) ==
    /\ r.status \in {400, 401}
    /\ r.body.kind \in {"object", "array"}
    /\ (\E key \in {"error", "message"} : key \in DOMAIN r.body.f)

\* C10: the login script passes exactly when the valid-credential request is
\* answered 200 with a JSON body containing token or accessToken and then the
\* invalid-credential request is answered 400 or 401 with a JSON body
\* containing error or message; the invalid-credential request is issued
\* only if the valid-credential check passed.
C10_LoginPassesExactlyWhen ==
    tc = "TC001" =>
       /\ (step = 1 /\ EndedNow) => (log[1].outcome = "pass" <=> LoginAccepted(resp))
       /\ (step = 2 /\ EndedNow) => (log[2].outcome = "pass" <=> LoginRejected(resp))
       /\ sent[2] > 0 => (Ended(1) /\ log[1].outcome = "pass")
       /\ result = "pass" =>
             (Len(log) = 2 /\ log[1].outcome = "pass" /\ log[2].outcome = "pass")
       /\ (pc = "done" /\ Len(log) = 2 /\ log[2].outcome = "pass") => result = "pass"

\* the login script has passed
C10_Witness ==
    /\ tc = "TC001"
    /\ result = "pass"
    /\ sent[2] = 1

\* C11: the billing script issues the subscription GET once and then five
\* more times, one after another; it passes only if all six answers have
\* status 200, the first body contains both plan and status, and the mean
\* duration of the five repeated calls is under 2 seconds; the first answer
\* that is not 200 ends the script with no further GET issued.
C11_BillingPassesOnlyIf ==
    tc = "TC009" =>
       /\ (step = 1 /\ EndedNow /\ log[1].outcome = "pass") =>
             /\ resp.status = 200
             /\ resp.body.kind \in {"object", "array"}
             /\ {"plan", "status"} \subseteq DOMAIN resp.body.f
       /\ \A k \in DOMAIN sent :
             /\ sent[k] <= 1
             /\ sent[k] > 0 =>
                   \A j \in 1..(k - 1) :
                      Ended(j) /\ log[j].outcome = "pass" /\ log[j].status = 200
       /\ \A j \in DOMAIN log :
             (log[j].outcome # "TransportFailure" /\ log[j].status # 200) =>
                /\ result = "fail"
                /\ j = Len(log)
                /\ \A k \in DOMAIN sent : k > j => sent[k] = 0
       /\ result = "pass" =>
             /\ Len(log) = 6
             /\ \A j \in 1..6 : sent[j] = 1 /\ log[j].status = 200
             /\ log[1].outcome = "pass"
             /\ Len(times) = 5
             /\ Sum(times) < 2 * 5

\* the billing script has passed although one repeated call took 3 seconds
C11_Witness ==
    /\ tc = "TC009"
    /\ result = "pass"
    /\ times = <<1, 1, 3, 1, 1>>

\* check k of script t lets only success statuses through
ExpectsSuccess(t, k) ==
    AcceptedStatuses(t, k) \subseteq {200, 201, 204}

\* C12: every request that a script expects to succeed carries all the
\* required inputs of its endpoint; a metrics-history request for which
\* status 200 is required carries startDate, endDate and a groupBy of day,
\* week or month.
C12_SuccessRequestsCarryRequiredInputs ==
    (req # NoReq /\ ExpectsSuccess(tc, step)) =>
       /\ RequiredInputs(req.path) \subseteq req.fields
       /\ req.path = "/api/v1/metrics/history" =>
             req.groupBy \in {"day", "week", "month"}

\* C13: in the dashboard script a request to /api/v1/metrics/dashboard is
\* issued only after a login answer of a non-error status whose body carries
\* a non-empty accessToken or token, and carries exactly that token as its
\* bearer Authorization; a failed login ends the script in failure with no
\* dashboard request issued.
C13_DashboardNeedsToken ==
    tc = "TC006" =>
       /\ req.path = "/api/v1/metrics/dashboard" =>
             /\ log[1].outcome = "pass"
             /\ ~RaiseForStatus(log[1].status)
             /\ token.t = "str"
             /\ token.s # <<>>
             /\ req.auth = token
       /\ (Ended(1) /\ log[1].outcome # "pass") =>
             /\ result = "fail"
             /\ \A k \in DOMAIN sent : k > 1 => sent[k] = 0

\* C14: the OAuth initiation check on a valid redirect_uri passes only if
\* the status is 200 or 201 and the JSON object contains auth_url or url; a
\* 200/201 answer whose object has neither fails the check.
C14_OAuthNeedsAuthUrl ==
    (tc = "TC004" /\ step = 1 /\ EndedNow /\ log[1].outcome = "pass") =>
       /\ resp.status \in {200, 201}
       /\ IsDict(resp.body)
       /\ (In("auth_url", resp.body) \/ In("url", resp.body))

====
